---------------------------- MODULE Spec2Model ----------------------------
(***************************************************************************)
(* Operating-system detection of the user_agent package                    *)
(* (operating_systems.go): detectOS, its engine heuristics, normalizeOS,   *)
(* getPlatform, osName and OSInfo.                                         *)
(*                                                                         *)
(* Go strings are modelled as sequences of one-character strings, so that  *)
(* prefix tests, substring search, splitting, trimming and replacement are *)
(* computed character by character as the strings package computes them.   *)
(* A Go slice index i (zero-based) is the TLA+ index i + 1.                *)
(***************************************************************************)
EXTENDS Integers, Sequences, FiniteSets, TLC

VARIABLES
    p,          \* the UserAgent record that detectOS mutates
    p0,         \* the record as it was when detectOS was called
    sections,   \* the argument of detectOS: a sequence of sections
    pc,         \* position of the caller: in detectOS, returned, in/after OSInfo
    ran,        \* the heuristics and rules detectOS has applied in this call
    info        \* the value the last OSInfo() call returned (NoInfo before)

vars == <<p, p0, sections, pc, ran, info>>

\* ---- string literals of operating_systems.go, as sequences of characters ----
\* ""
S_Empty ==
    <<>>
\* " "
S_Space ==
    <<" ">>
\* "NT"
S_NT ==
    <<"N", "T">>
\* "5.0"
S_5_0 ==
    <<"5", ".", "0">>
\* "5.01"
S_5_01 ==
    <<"5", ".", "0", "1">>
\* "5.1"
S_5_1 ==
    <<"5", ".", "1">>
\* "5.2"
S_5_2 ==
    <<"5", ".", "2">>
\* "6.0"
S_6_0 ==
    <<"6", ".", "0">>
\* "6.1"
S_6_1 ==
    <<"6", ".", "1">>
\* "6.2"
S_6_2 ==
    <<"6", ".", "2">>
\* "6.3"
S_6_3 ==
    <<"6", ".", "3">>
\* "10.0"
S_10_0 ==
    <<"1", "0", ".", "0">>
\* "Windows 2000"
S_Windows_2000 ==
    <<"W", "i", "n", "d", "o", "w", "s", " ", "2", "0", "0", "0">>
\* "Windows 2000, Service Pack 1 (SP1)"
S_Windows_2000_SP1 ==
    <<"W", "i", "n", "d", "o", "w", "s", " ", "2", "0", "0", "0", ",", " ", "S", "e", "r", "v", "i", "c", "e", " ", "P", "a", "c", "k", " ", "1", " ", "(", "S", "P", "1", ")">>
\* "Windows XP"
S_Windows_XP ==
    <<"W", "i", "n", "d", "o", "w", "s", " ", "X", "P">>
\* "Windows XP x64 Edition"
S_Windows_XP_x64_Edition ==
    <<"W", "i", "n", "d", "o", "w", "s", " ", "X", "P", " ", "x", "6", "4", " ", "E", "d", "i", "t", "i", "o", "n">>
\* "Windows Vista"
S_Windows_Vista ==
    <<"W", "i", "n", "d", "o", "w", "s", " ", "V", "i", "s", "t", "a">>
\* "Windows 7"
S_Windows_7 ==
    <<"W", "i", "n", "d", "o", "w", "s", " ", "7">>
\* "Windows 8"
S_Windows_8 ==
    <<"W", "i", "n", "d", "o", "w", "s", " ", "8">>
\* "Windows 8.1"
S_Windows_8_1 ==
    <<"W", "i", "n", "d", "o", "w", "s", " ", "8", ".", "1">>
\* "Windows 10"
S_Windows_10 ==
    <<"W", "i", "n", "d", "o", "w", "s", " ", "1", "0">>
\* "wv"
S_wv ==
    <<"w", "v">>
\* "Chrome"
S_Chrome ==
    <<"C", "h", "r", "o", "m", "e">>
\* "Chrome WebView"
S_Chrome_WebView ==
    <<"C", "h", "r", "o", "m", "e", " ", "W", "e", "b", "V", "i", "e", "w">>
\* "Android WebView"
S_Android_WebView ==
    <<"A", "n", "d", "r", "o", "i", "d", " ", "W", "e", "b", "V", "i", "e", "w">>
\* "U"
S_U ==
    <<"U">>
\* "arm_64"
S_arm_64 ==
    <<"a", "r", "m", "_", "6", "4">>
\* "Android"
S_Android ==
    <<"A", "n", "d", "r", "o", "i", "d">>
\* "Mobile"
S_Mobile ==
    <<"M", "o", "b", "i", "l", "e">>
\* "Tablet"
S_Tablet ==
    <<"T", "a", "b", "l", "e", "t">>
\* "FirefoxOS"
S_FirefoxOS ==
    <<"F", "i", "r", "e", "f", "o", "x", "O", "S">>
\* "rv:"
S_rv ==
    <<"r", "v", ":">>
\* "Windows"
S_Windows ==
    <<"W", "i", "n", "d", "o", "w", "s">>
\* "Windows NT 4.0"
S_Windows_NT_4_0 ==
    <<"W", "i", "n", "d", "o", "w", "s", " ", "N", "T", " ", "4", ".", "0">>
\* "IEMobile"
S_IEMobile ==
    <<"I", "E", "M", "o", "b", "i", "l", "e">>
\* "MRA"
S_MRA ==
    <<"M", "R", "A">>
\* "Linux"
S_Linux ==
    <<"L", "i", "n", "u", "x">>
\* "compatible"
S_compatible ==
    <<"c", "o", "m", "p", "a", "t", "i", "b", "l", "e">>
\* "Symbian"
S_Symbian ==
    <<"S", "y", "m", "b", "i", "a", "n">>
\* "webOS"
S_webOS ==
    <<"w", "e", "b", "O", "S">>
\* "BB10"
S_BB10 ==
    <<"B", "B", "1", "0">>
\* "BlackBerry"
S_BlackBerry ==
    <<"B", "l", "a", "c", "k", "B", "e", "r", "r", "y">>
\* "Mozilla"
S_Mozilla ==
    <<"M", "o", "z", "i", "l", "l", "a">>
\* "Gecko"
S_Gecko ==
    <<"G", "e", "c", "k", "o">>
\* "AppleWebKit"
S_AppleWebKit ==
    <<"A", "p", "p", "l", "e", "W", "e", "b", "K", "i", "t">>
\* "Version"
S_Version ==
    <<"V", "e", "r", "s", "i", "o", "n">>
\* "Trident"
S_Trident ==
    <<"T", "r", "i", "d", "e", "n", "t">>
\* "Opera"
S_Opera ==
    <<"O", "p", "e", "r", "a">>
\* "Dalvik"
S_Dalvik ==
    <<"D", "a", "l", "v", "i", "k">>
\* "okhttp"
S_okhttp ==
    <<"o", "k", "h", "t", "t", "p">>
\* "OkHttp"
S_OkHttp ==
    <<"O", "k", "H", "t", "t", "p">>
\* "Intel"
S_Intel ==
    <<"I", "n", "t", "e", "l">>
\* "Mac"
S_Mac ==
    <<"M", "a", "c">>
\* "x86"
S_x86 ==
    <<"x", "8", "6">>
\* "i686"
S_i686 ==
    <<"i", "6", "8", "6">>
\* "X"
S_X ==
    <<"X">>
\* "Mac OS"
S_Mac_OS ==
    <<"M", "a", "c", " ", "O", "S">>
\* "like Mac OS X"
S_like_Mac_OS_X ==
    <<"l", "i", "k", "e", " ", "M", "a", "c", " ", "O", "S", " ", "X">>
\* "CPU"
S_CPU ==
    <<"C", "P", "U">>
\* "/"
S_Slash ==
    <<"/">>
\* "_"
S_Underscore ==
    <<"_">>
\* "."
S_Dot ==
    <<".">>

\* ---- input values: comment tokens, section names and browser fields that
\* ---- the tokenizer and the browser detector hand to detectOS
\* "Windows NT 10.0"
T_Windows_NT_10_0 ==
    <<"W", "i", "n", "d", "o", "w", "s", " ", "N", "T", " ", "1", "0", ".", "0">>
\* "Windows NT 5.2"
T_Windows_NT_5_2 ==
    <<"W", "i", "n", "d", "o", "w", "s", " ", "N", "T", " ", "5", ".", "2">>
\* "Win64"
T_Win64 ==
    <<"W", "i", "n", "6", "4">>
\* "x64"
T_x64 ==
    <<"x", "6", "4">>
\* "CPU iPhone OS 10_3_1 like Mac OS X"
T_iPhone_OS ==
    <<"C", "P", "U", " ", "i", "P", "h", "o", "n", "e", " ", "O", "S", " ", "1", "0", "_", "3", "_", "1", " ", "l", "i", "k", "e", " ", "M", "a", "c", " ", "O", "S", " ", "X">>
\* "Intel Mac OS X 10_6_8"
T_Intel_Mac ==
    <<"I", "n", "t", "e", "l", " ", "M", "a", "c", " ", "O", "S", " ", "X", " ", "1", "0", "_", "6", "_", "8">>
\* "Linux x86_64"
T_Linux_x86_64 ==
    <<"L", "i", "n", "u", "x", " ", "x", "8", "6", "_", "6", "4">>
\* "Android 12"
T_Android_12 ==
    <<"A", "n", "d", "r", "o", "i", "d", " ", "1", "2">>
\* "Build/1_0 wv"
T_Build_wv ==
    <<"B", "u", "i", "l", "d", "/", "1", "_", "0", " ", "w", "v">>
\* "Windows NT 6.1"
T_Windows_NT_6_1 ==
    <<"W", "i", "n", "d", "o", "w", "s", " ", "N", "T", " ", "6", ".", "1">>
\* "rv:11.0"
T_rv_11 ==
    <<"r", "v", ":", "1", "1", ".", "0">>
\* "en-US"
T_en_US ==
    <<"e", "n", "-", "U", "S">>
\* "IEMobile/9.0"
T_IEMobile_9 ==
    <<"I", "E", "M", "o", "b", "i", "l", "e", "/", "9", ".", "0">>
\* "MRA 5.5"
T_MRA_5_5 ==
    <<"M", "R", "A", " ", "5", ".", "5">>
\* "Safari"
T_Safari ==
    <<"S", "a", "f", "a", "r", "i">>
\* "Googlebot"
T_Googlebot ==
    <<"G", "o", "o", "g", "l", "e", "b", "o", "t">>
\* "Presto"
T_Presto ==
    <<"P", "r", "e", "s", "t", "o">>
\* "chrome"
T_chrome ==
    <<"c", "h", "r", "o", "m", "e">>
\* "3.12.0"
T_3_12_0 ==
    <<"3", ".", "1", "2", ".", "0">>
\* "5.0"
T_5_0 ==
    <<"5", ".", "0">>
\* "99.0"
T_99 ==
    <<"9", "9", ".", "0">>
\* "CPU "
O_CPU_ ==
    <<"C", "P", "U", " ">>
\* "iPhone OS"
O_iPhone_OS ==
    <<"i", "P", "h", "o", "n", "e", " ", "O", "S">>
\* "Intel Mac OS"
O_Intel_Mac_OS ==
    <<"I", "n", "t", "e", "l", " ", "M", "a", "c", " ", "O", "S">>
\* "Windows XP x64"
O_Windows_XP_x64 ==
    <<"W", "i", "n", "d", "o", "w", "s", " ", "X", "P", " ", "x", "6", "4">>
\* "Build/1_0"
O_Build_1_0 ==
    <<"B", "u", "i", "l", "d", "/", "1", "_", "0">>
\* " 10_3_1"
O__10_3_1 ==
    <<" ", "1", "0", "_", "3", "_", "1">>
\* " X"
O__X ==
    <<" ", "X">>
\* " x86_64"
O__x86_64 ==
    <<" ", "x", "8", "6", "_", "6", "4">>
\* " Edition"
O__Edition ==
    <<" ", "E", "d", "i", "t", "i", "o", "n">>
\* " i686_1_2"
O__i686_1_2 ==
    <<" ", "i", "6", "8", "6", "_", "1", "_", "2">>
\* " like Mac OS X"
O__like_Mac_OS_X ==
    <<" ", "l", "i", "k", "e", " ", "M", "a", "c", " ", "O", "S", " ", "X">>
\* "10.3.1"
E_10_3_1 ==
    <<"1", "0", ".", "3", ".", "1">>

\* ---------------------------------------------------------------------
\* The functions of Go's strings package that operating_systems.go calls
\* ---------------------------------------------------------------------

\* s[i:] and s[i:j] of Go (zero-based, j exclusive)
From(s, i) == SubSeq(s, i + 1, Len(s))

Slice(s, i, j) == SubSeq(s, i + 1, j)

\* strings.HasPrefix
HasPrefix(s, prefix) ==
    Len(s) >= Len(prefix) /\ SubSeq(s, 1, Len(prefix)) = prefix

\* strings.Index: the zero-based index of the first instance of substr, or -1
Index(s, substr) ==
    LET hits == {i \in 0..(Len(s) - Len(substr)) : Slice(s, i, i + Len(substr)) = substr}
    IN  IF hits = {} THEN -1 ELSE CHOOSE i \in hits : \A j \in hits : i <= j

\* strings.Contains
Contains(s, substr) == Index(s, substr) >= 0

\* strings.Replace(s, old, new, n) for a non-empty old: the first n
\* non-overlapping instances of old replaced by new; n < 0 means all
RECURSIVE Replace(_, _, _, _)
Replace(s, old, new, n) ==
    LET i == Index(s, old)
    IN  IF n = 0 \/ i < 0
        THEN s
        ELSE Slice(s, 0, i) \o new
                \o Replace(From(s, i + Len(old)), old, new, IF n < 0 THEN n ELSE n - 1)

\* strings.Trim(s, cutset), the cutset given as a set of characters
RECURSIVE TrimLeft(_, _)
TrimLeft(s, cutset) ==
    IF Len(s) > 0 /\ Head(s) \in cutset THEN TrimLeft(Tail(s), cutset) ELSE s

RECURSIVE TrimRight(_, _)
TrimRight(s, cutset) ==
    IF Len(s) > 0 /\ s[Len(s)] \in cutset
    THEN TrimRight(SubSeq(s, 1, Len(s) - 1), cutset)
    ELSE s

Trim(s, cutset) == TrimRight(TrimLeft(s, cutset), cutset)

\* strings.SplitN(s, sep, n) for a non-empty sep: at most n substrings, the
\* last one the unsplit remainder; n < 0 means all substrings, n = 0 none
RECURSIVE SplitN(_, _, _)
SplitN(s, sep, n) ==
    LET i == Index(s, sep)
    IN  IF n = 0 THEN <<>>
        ELSE IF n = 1 \/ i < 0 THEN <<s>>
        ELSE <<Slice(s, 0, i)>>
                \o SplitN(From(s, i + Len(sep)), sep, IF n < 0 THEN n ELSE n - 1)

\* strings.Split(s, sep) is SplitN(s, sep, -1)
Split(s, sep) == SplitN(s, sep, -1)

\* strings.Join
RECURSIVE Join(_, _)
Join(elems, sep) ==
    IF Len(elems) = 0 THEN <<>>
    ELSE IF Len(elems) = 1 THEN elems[1]
    ELSE elems[1] \o sep \o Join(Tail(elems), sep)

\* the letters, for case folding
UpperLetters ==
    <<"A", "B", "C", "D", "E", "F", "G", "H", "I", "J", "K", "L", "M",
      "N", "O", "P", "Q", "R", "S", "T", "U", "V", "W", "X", "Y", "Z">>

LowerLetters ==
    <<"a", "b", "c", "d", "e", "f", "g", "h", "i", "j", "k", "l", "m",
      "n", "o", "p", "q", "r", "s", "t", "u", "v", "w", "x", "y", "z">>

Fold(c) ==
    IF \E i \in 1..26 : UpperLetters[i] = c
    THEN LowerLetters[CHOOSE i \in 1..26 : UpperLetters[i] = c]
    ELSE c

\* strings.EqualFold: equality under case folding
EqualFold(s, t) ==
    Len(s) = Len(t) /\ \A i \in 1..Len(s) : Fold(s[i]) = Fold(t[i])

\* ---------------------------------------------------------------------
\* Index expressions.  Go checks every index at run time and panics with
\* "index out of range" when it is past the end; Panic is that outcome.
\* ---------------------------------------------------------------------
Panic == [panic |-> "index out of range"]

\* the same outcome where the expression's value is a string or a slice
PanicS == <<"panic: index out of range">>

\* the same outcome where the expression's value is a slice of strings
PanicL == <<PanicS>>

\* the zero-based element a[i]
At(a, i) == a[i + 1]

\* the value of a record-valued expression that reads a[i]: r when i is in range
Checked(a, i, r) == IF 0 <= i /\ i < Len(a) THEN r ELSE Panic

\* the value of a string-valued expression that reads a[i]
CheckedS(a, i, r) == IF 0 <= i /\ i < Len(a) THEN r ELSE PanicS

\* the value of an expression that reads a[i] and yields a slice of strings
CheckedL(a, i, r) == IF 0 <= i /\ i < Len(a) THEN r ELSE PanicL

\* the value of a slice expression a[lo:hi] on a slice of strings
CheckedSlice(a, lo, hi) ==
    IF 0 <= lo /\ lo <= hi /\ hi <= Len(a) THEN Slice(a, lo, hi) ELSE PanicL

\* ---------------------------------------------------------------------
\* normalizeOS
\* ---------------------------------------------------------------------
normalizeOS(name) ==
    LET sp == SplitN(name, S_Space, 3)
    IN  IF Len(sp) # 3 THEN name
        ELSE CheckedS(sp, 1, CheckedS(sp, 2,
        IF At(sp, 1) # S_NT THEN name
        ELSE IF At(sp, 2) = S_5_0 THEN S_Windows_2000
        ELSE IF At(sp, 2) = S_5_01 THEN S_Windows_2000_SP1
        ELSE IF At(sp, 2) = S_5_1 THEN S_Windows_XP
        ELSE IF At(sp, 2) = S_5_2 THEN S_Windows_XP_x64_Edition
        ELSE IF At(sp, 2) = S_6_0 THEN S_Windows_Vista
        ELSE IF At(sp, 2) = S_6_1 THEN S_Windows_7
        ELSE IF At(sp, 2) = S_6_2 THEN S_Windows_8
        ELSE IF At(sp, 2) = S_6_3 THEN S_Windows_8_1
        ELSE IF At(sp, 2) = S_10_0 THEN S_Windows_10
        ELSE name))

\* ---------------------------------------------------------------------
\* getPlatform
\* ---------------------------------------------------------------------
getPlatform(comment) ==
    IF Len(comment) > 0
    THEN CheckedS(comment, 0,
            IF At(comment, 0) # S_compatible
            THEN IF HasPrefix(At(comment, 0), S_Windows) THEN S_Windows
                 ELSE IF HasPrefix(At(comment, 0), S_Symbian) THEN S_Symbian
                 ELSE IF HasPrefix(At(comment, 0), S_webOS) THEN S_webOS
                 ELSE IF At(comment, 0) = S_BB10 THEN S_BlackBerry
                 ELSE At(comment, 0)
            ELSE S_Empty)
    ELSE S_Empty

\* ---------------------------------------------------------------------
\* Assignments to the UserAgent record.  Evaluating the right-hand side
\* comes first: if it panics, so does the function.
\* ---------------------------------------------------------------------
Set(q, field, v) == IF v = PanicS THEN Panic ELSE [q EXCEPT ![field] = v]

\* ---------------------------------------------------------------------
\* webkit
\* ---------------------------------------------------------------------
webkit(q, comment) ==
    LET q1 == IF q.platform = S_Empty
              THEN Set(q, "platform", getPlatform(comment))
              ELSE q
        q2 == IF q1.os = S_Empty /\ Len(comment) > 1
              THEN Checked(comment, 1, Set(q1, "os", normalizeOS(At(comment, 1))))
              ELSE q1
        \* the range loop stops at the first token that is or contains "wv"
        found == \E i \in 1..Len(comment) :
                    comment[i] = S_wv \/ Contains(comment[i], S_wv)
    IN  IF q1 = Panic THEN Panic
        ELSE IF q2 = Panic THEN Panic
        ELSE IF found
        THEN [q2 EXCEPT !.mobile = TRUE,
                        !.browser.Name =
                            IF Contains(q2.browser.Name, S_Chrome)
                            THEN S_Chrome_WebView
                            ELSE S_Android_WebView]
        ELSE q2

\* ---------------------------------------------------------------------
\* gecko
\* ---------------------------------------------------------------------
\* geckoDefault without its test of q.os: the last branch always writes the OS
geckoDefault_overwrite(q, comment) ==
    Checked(comment, 1, Set(q, "os", normalizeOS(At(comment, 1))))

\* lines 109-111, the last branch: the OS is written only if it is still unset
geckoDefault(q, comment) ==
    IF q.os = S_Empty
    THEN Checked(comment, 1, Set(q, "os", normalizeOS(At(comment, 1))))
    ELSE q

gecko(q, comment) ==
    IF Len(comment) > 1
    THEN LET q1 ==
                Checked(comment, 1,
                    IF At(comment, 1) = S_U \/ At(comment, 1) = S_arm_64
                    THEN IF Len(comment) > 2
                         THEN Checked(comment, 2,
                                Set(q, "os", normalizeOS(At(comment, 2))))
                         ELSE Set(q, "os", normalizeOS(At(comment, 1)))
                    ELSE IF Contains(q.platform, S_Android)
                         THEN LET np == normalizeOS(At(comment, 1))
                              IN  IF np = PanicS THEN Panic
                                  ELSE [q EXCEPT !.mobile = TRUE,
                                                 !.platform = np,
                                                 !.os = q.platform]
                         ELSE Checked(comment, 0,
                                IF At(comment, 0) = S_Mobile \/ At(comment, 0) = S_Tablet
                                THEN [q EXCEPT !.mobile = TRUE, !.os = S_FirefoxOS]
                                ELSE geckoDefault(q, comment)))
         IN  IF q1 = Panic THEN Panic
             \* only the 4th comment that does not start with "rv:" is a localization
             ELSE IF Len(comment) > 3
             THEN Checked(comment, 3,
                    IF ~HasPrefix(At(comment, 3), S_rv)
                    THEN [q1 EXCEPT !.localization = At(comment, 3)]
                    ELSE q1)
             ELSE q1
    ELSE q

\* ---------------------------------------------------------------------
\* trident
\* ---------------------------------------------------------------------
\* tridentOS without its test of q.os: an OS set before is overwritten
tridentOS_overwrite(q, comment) ==
    IF Len(comment) > 2
    THEN Checked(comment, 2, Set(q, "os", normalizeOS(At(comment, 2))))
    ELSE [q EXCEPT !.os = S_Windows_NT_4_0]

\* tridentOS reading the second comment token instead of the third
tridentOS_second(q, comment) ==
    IF q.os = S_Empty
    THEN IF Len(comment) > 1
         THEN Checked(comment, 1, Set(q, "os", normalizeOS(At(comment, 1))))
         ELSE [q EXCEPT !.os = S_Windows_NT_4_0]
    ELSE q

\* lines 132-138: the OS can be set before, to handle a case of IE11
tridentOS(q, comment) ==
    IF q.os = S_Empty
    THEN IF Len(comment) > 2
         THEN Checked(comment, 2, Set(q, "os", normalizeOS(At(comment, 2))))
         ELSE [q EXCEPT !.os = S_Windows_NT_4_0]
    ELSE q

trident(q, comment) ==
    LET q1 == [q EXCEPT !.platform = S_Windows]
        q2 == tridentOS(q1, comment)
    IN  IF q2 = Panic THEN Panic
        ELSE IF \E i \in 1..Len(comment) : HasPrefix(comment[i], S_IEMobile)
        THEN [q2 EXCEPT !.mobile = TRUE]
        ELSE q2

\* ---------------------------------------------------------------------
\* opera
\* ---------------------------------------------------------------------
opera(q, comment) ==
    LET slen == Len(comment)
    IN  Checked(comment, 0,
        IF HasPrefix(At(comment, 0), S_Windows)
        THEN LET q1 == Set([q EXCEPT !.platform = S_Windows], "os",
                           normalizeOS(At(comment, 0)))
             IN  IF q1 = Panic THEN Panic
                 ELSE IF slen > 2
                 THEN Checked(comment, 2,
                        IF slen > 3 /\ HasPrefix(At(comment, 2), S_MRA)
                        THEN Checked(comment, 3,
                                [q1 EXCEPT !.localization = At(comment, 3)])
                        ELSE [q1 EXCEPT !.localization = At(comment, 2)])
                 ELSE q1
        ELSE LET q1 == IF HasPrefix(At(comment, 0), S_Android)
                       THEN [q EXCEPT !.mobile = TRUE]
                       ELSE q
                 q2 == [q1 EXCEPT !.platform = At(comment, 0)]
             IN  IF slen > 1
                 THEN Checked(comment, 1,
                        LET q3 == [q2 EXCEPT !.os = At(comment, 1)]
                        IN  IF slen > 3
                            THEN Checked(comment, 3,
                                    [q3 EXCEPT !.localization = At(comment, 3)])
                            ELSE q3)
                 ELSE [q2 EXCEPT !.os = At(comment, 0)])

\* ---------------------------------------------------------------------
\* dalvik
\* ---------------------------------------------------------------------
dalvik(q, comment) ==
    LET slen == Len(comment)
    IN  Checked(comment, 0,
        IF HasPrefix(At(comment, 0), S_Linux)
        THEN LET q1 == [q EXCEPT !.platform = At(comment, 0)]
                 q2 == IF slen > 2
                       THEN Checked(comment, 2, [q1 EXCEPT !.os = At(comment, 2)])
                       ELSE q1
             IN  IF q2 = Panic THEN Panic ELSE [q2 EXCEPT !.mobile = TRUE]
        ELSE q)

\* ---------------------------------------------------------------------
\* osName
\* ---------------------------------------------------------------------
\* the pair <<name, version>>
osName(osSplit) ==
    IF Len(osSplit) = 1
    THEN CheckedL(osSplit, 0, <<At(osSplit, 0), S_Empty>>)
    ELSE LET nameSplit0 == CheckedSlice(osSplit, 0, Len(osSplit) - 1)
             version0 == At(osSplit, Len(osSplit) - 1)
             nameSplit == IF Len(nameSplit0) >= 2
                             /\ At(nameSplit0, 0) = S_Intel
                             /\ At(nameSplit0, 1) = S_Mac
                          THEN From(nameSplit0, 1)
                          ELSE nameSplit0
             name == Join(nameSplit, S_Space)
         IN  IF nameSplit0 = PanicL THEN PanicL
             ELSE CheckedL(osSplit, Len(osSplit) - 1,
                    IF Contains(version0, S_x86) \/ Contains(version0, S_i686)
                    THEN <<name, S_Empty>>
                    ELSE IF version0 = S_X /\ name = S_Mac_OS
                    THEN <<name \o S_Space \o version0, S_Empty>>
                    ELSE <<name, version0>>)

\* ---------------------------------------------------------------------
\* OSInfo: the receiver after the call and the value returned
\* ---------------------------------------------------------------------
\* versionDots replacing the first underscore only
versionDots_first(version) == Replace(version, S_Underscore, S_Dot, 1)

\* line 346: versions that use underscores
versionDots(version) == Replace(version, S_Underscore, S_Dot, -1)

\* fullName taking the cleaned local variable os instead of the field
fullName_cleaned(q) ==
    Trim(Replace(Replace(q.os, S_like_Mac_OS_X, S_Empty, 1), S_CPU, S_Empty, 1), {" "})

\* line 349: FullName is the os field
fullName(q) == q.os

OSInfo(q) ==
    LET os1 == Replace(q.os, S_like_Mac_OS_X, S_Empty, 1)
        os2 == Replace(os1, S_CPU, S_Empty, 1)
        os == Trim(os2, {" "})
        osSplit0 == Split(os, S_Space)
        osSplit == IF os = S_Windows_XP_x64_Edition
                   THEN CheckedSlice(osSplit0, 0, Len(osSplit0) - 2)
                   ELSE osSplit0
        nv == osName(osSplit)
        s == Split(nv[1], S_Slash)
    IN  IF osSplit = PanicL THEN Panic
        ELSE IF nv = PanicL THEN Panic
        ELSE LET r == IF Contains(nv[1], S_Slash)
                      THEN Checked(s, 0, Checked(s, 1,
                                [name |-> At(s, 0), version |-> At(s, 1)]))
                      ELSE [name |-> nv[1], version |-> nv[2]]
             IN  IF r = Panic THEN Panic
                 ELSE [p |-> q,
                       ret |-> [FullName |-> fullName(q),
                                Name |-> r.name,
                                Version |-> versionDots(r.version)]]

\* ---------------------------------------------------------------------
\* Inputs.  The tokenizer hands detectOS a list of sections and the browser
\* detector has filled p.browser before detectOS runs.
\* ---------------------------------------------------------------------

\* the longest comment list of the first section
MaxComment == 4

\* the longest section list
MaxSections == 2

\* the tokens that may stand at (one-based) position i of the first comment
Slot(i) ==
    CASE i = 1 -> {S_compatible, T_Windows_NT_10_0, S_Android, S_Mobile, S_Linux}
      [] i = 2 -> {S_U, S_arm_64, T_Win64, T_iPhone_OS}
      [] i = 3 -> {S_Empty, T_Windows_NT_5_2, T_x64, T_Build_wv, T_IEMobile_9, T_MRA_5_5}
      [] i = 4 -> {T_rv_11, T_en_US}
      [] OTHER -> {S_wv}

\* the comment lists of exactly n tokens
RECURSIVE CommentsOfLen(_)
CommentsOfLen(n) ==
    IF n = 0 THEN {<<>>}
    ELSE {Append(c, t) : c \in CommentsOfLen(n - 1), t \in Slot(n)}

Comments == UNION {CommentsOfLen(n) : n \in 0..MaxComment}

FirstNames == {S_Mozilla, S_Trident, S_Opera, S_Dalvik, S_okhttp, T_Googlebot}

\* the names that may stand at (one-based) position i > 1 of the section list
LaterNames(i) == IF i = 2 THEN {T_chrome, S_Version} ELSE {T_Safari}

Engines == {S_Empty, S_Gecko, S_AppleWebKit, S_Trident, T_Presto}

BrowserNames == {S_Chrome, T_Safari}

FirstSections ==
    {[name |-> n, version |-> T_3_12_0, comment |-> c] : n \in FirstNames, c \in Comments}

\* the section lists of exactly n sections, n > 0
RECURSIVE SectionsOfLen(_)
SectionsOfLen(n) ==
    IF n = 1 THEN {<<f>> : f \in FirstSections}
    ELSE {Append(l, [name |-> m, version |-> T_5_0, comment |-> <<>>]) :
                l \in SectionsOfLen(n - 1), m \in LaterNames(n)}

SectionLists == {<<>>} \cup UNION {SectionsOfLen(n) : n \in 1..MaxSections}

\* the record as initialize() and the browser detector leave it
Fresh(name, engine) ==
    [platform |-> S_Empty, os |-> S_Empty, localization |-> S_Empty,
     mobile |-> FALSE, undecided |-> FALSE,
     browser |-> [Name |-> name, Version |-> T_99, Engine |-> engine]]

\* info before the first OSInfo() call: no value yet
None == <<"(none)">>

NoInfo == [FullName |-> None, Name |-> None, Version |-> None]

Init ==
    /\ \E name \in BrowserNames, engine \in Engines : p = Fresh(name, engine)
    /\ p0 = p
    /\ sections \in SectionLists
    /\ pc = "detectOS"
    /\ ran = {}
    /\ info = NoInfo

\* ---------------------------------------------------------------------
\* detectOS, step by step: the dispatcher, the heuristic it calls, and for
\* AppleWebKit the scan of the section names that follows the heuristic
\* ---------------------------------------------------------------------

\* s := sections[0]
s0 == At(sections, 0)

\* the function returned q, or panicked
Continue(q, next, rule) ==
    IF q = Panic
    THEN pc' = "panic" /\ UNCHANGED <<p, ran>>
    ELSE pc' = next /\ p' = q /\ ran' = ran \cup rule

\* lines 227-231: the platform, and the OS of a Windows platform
mozilla(q, comment) ==
    LET q1 == Set(q, "platform", getPlatform(comment))
    IN  IF q1 = Panic THEN Panic
        ELSE IF q1.platform = S_Windows /\ Len(comment) > 0
        THEN Checked(comment, 0, Set(q1, "os", normalizeOS(At(comment, 0))))
        ELSE q1

\* dispatch calling opera and dalvik without the test of the comment's length
dispatch_unguarded(q, s) ==
    IF s.name = S_Mozilla
    THEN IF q.browser.Engine = S_Gecko THEN "gecko"
         ELSE IF q.browser.Engine = S_AppleWebKit THEN "webkit"
         ELSE IF q.browser.Engine = S_Trident THEN "trident"
         ELSE "return"
    ELSE IF s.name = S_Opera THEN "opera"
    ELSE IF s.name = S_Dalvik THEN "dalvik"
    ELSE "return"

\* dispatch without the Trident case of the engine switch
dispatch_noTrident(q, s) ==
    IF s.name = S_Mozilla
    THEN IF q.browser.Engine = S_Gecko THEN "gecko"
         ELSE IF q.browser.Engine = S_AppleWebKit THEN "webkit"
         ELSE "return"
    ELSE IF s.name = S_Opera THEN (IF Len(s.comment) > 0 THEN "opera" ELSE "return")
    ELSE IF s.name = S_Dalvik THEN (IF Len(s.comment) > 0 THEN "dalvik" ELSE "return")
    ELSE "return"

\* where the dispatcher goes: the function it calls next, or "return"
dispatch(q, s) ==
    IF s.name = S_Mozilla
    THEN IF q.browser.Engine = S_Gecko THEN "gecko"
         ELSE IF q.browser.Engine = S_AppleWebKit THEN "webkit"
         ELSE IF q.browser.Engine = S_Trident THEN "trident"
         ELSE "return"
    ELSE IF s.name = S_Opera THEN (IF Len(s.comment) > 0 THEN "opera" ELSE "return")
    ELSE IF s.name = S_Dalvik THEN (IF Len(s.comment) > 0 THEN "dalvik" ELSE "return")
    ELSE "return"

\* okhttp without the assignment of the browser version
okhttp_noVersion(q, s) ==
    [q EXCEPT !.mobile = TRUE, !.browser.Name = S_OkHttp]

\* lines 266-268: the okhttp client
okhttp(q, s) ==
    [q EXCEPT !.mobile = TRUE,
              !.browser.Name = S_OkHttp,
              !.browser.Version = s.version]

\* what the dispatcher itself writes before it calls a heuristic or returns
detectOS(q, secs) ==
    IF Len(secs) = 0 THEN q
    ELSE Checked(secs, 0,
        LET s == At(secs, 0)
        IN  IF s.name = S_Mozilla
            THEN LET q1 == mozilla(q, s.comment)
                 IN  IF q1 = Panic THEN Panic
                     ELSE IF q1.browser.Engine = S_Empty
                     THEN [q1 EXCEPT !.undecided = TRUE]
                     ELSE q1
            ELSE IF s.name = S_Opera \/ s.name = S_Dalvik THEN q
            ELSE IF s.name = S_okhttp THEN okhttp(q, s)
            ELSE [q EXCEPT !.undecided = TRUE])

DetectOS ==
    /\ pc = "detectOS"
    /\ Continue(detectOS(p, sections),
                IF Len(sections) = 0 THEN "return" ELSE dispatch(p, s0),
                IF Len(sections) > 0 /\ s0.name = S_okhttp THEN {"okhttp"} ELSE {})
    /\ UNCHANGED <<p0, sections, info>>

Gecko ==
    /\ pc = "gecko"
    /\ Continue(gecko(p, s0.comment), "return", {"gecko"})
    /\ UNCHANGED <<p0, sections, info>>

Webkit ==
    /\ pc = "webkit"
    /\ Continue(webkit(p, s0.comment), "names", {"webkit"})
    /\ UNCHANGED <<p0, sections, info>>

\* lines 242-253: the first section named Chrome or Version names the browser
names(q, secs) ==
    LET hits == {i \in 1..Len(secs) :
                    EqualFold(secs[i].name, S_Chrome) \/ EqualFold(secs[i].name, S_Version)}
        first == CHOOSE i \in hits : \A j \in hits : i <= j
    IN  IF hits = {} THEN q
        ELSE IF EqualFold(secs[first].name, S_Chrome)
        THEN [q EXCEPT !.browser.Name = S_Chrome,
                       !.browser.Version = secs[first].version]
        ELSE [q EXCEPT !.browser.Name = S_Android_WebView,
                       !.browser.Version = secs[first].version]

Names ==
    /\ pc = "names"
    /\ Continue(names(p, sections), "return", {"names"})
    /\ UNCHANGED <<p0, sections, info>>

Trident ==
    /\ pc = "trident"
    /\ Continue(trident(p, s0.comment), "return", {"trident"})
    /\ UNCHANGED <<p0, sections, info>>

Opera ==
    /\ pc = "opera"
    /\ Continue(opera(p, s0.comment), "return", {"opera"})
    /\ UNCHANGED <<p0, sections, info>>

Dalvik ==
    /\ pc = "dalvik"
    /\ Continue(dalvik(p, s0.comment), "return", {"dalvik"})
    /\ UNCHANGED <<p0, sections, info>>

\* a caller queries the record once detectOS has returned, any number of times
OSInfoCall ==
    /\ pc \in {"return", "queried"}
    /\ LET r == OSInfo(p)
       IN  IF r = Panic
           THEN pc' = "panic" /\ UNCHANGED <<p, info>>
           ELSE pc' = "queried" /\ p' = r.p /\ info' = r.ret
    /\ UNCHANGED <<p0, sections, ran>>

Next ==
    \/ DetectOS
    \/ Gecko
    \/ Webkit
    \/ Names
    \/ Trident
    \/ Opera
    \/ Dalvik
    \/ OSInfoCall

Spec == Init /\ [][Next]_vars

\* ---------------------------------------------------------------------
\* OSInfo as a function of the os field alone: the record holds any raw OS
\* string (opera and dalvik store a comment token verbatim) and is queried
\* ---------------------------------------------------------------------
OSPrefixes == {S_Empty, O_CPU_}

OSNames ==
    {S_Empty, O_iPhone_OS, O_Intel_Mac_OS, S_Mac_OS, S_Linux, O_Windows_XP_x64,
     S_Android, O_Build_1_0}

OSVersions == {S_Empty, O__10_3_1, O__X, O__x86_64, O__Edition, O__i686_1_2}

OSSuffixes == {S_Empty, O__like_Mac_OS_X}

OSStrings ==
    {a \o b \o c \o d : a \in OSPrefixes, b \in OSNames, c \in OSVersions, d \in OSSuffixes}

InitInfo ==
    /\ \E os \in OSStrings : p = [Fresh(S_Chrome, S_AppleWebKit) EXCEPT !.os = os]
    /\ p0 = p
    /\ sections = <<>>
    /\ pc = "return"
    /\ ran = {}
    /\ info = NoInfo

NextInfo == OSInfoCall

SpecInfo == InitInfo /\ [][NextInfo]_vars


\* =====================================================================
\* Properties
\* =====================================================================

\* the comment list of the first section (of a non-empty section list)
c0 == s0.comment

\* the first section is named name
FirstNamed(name) == Len(sections) > 0 /\ s0.name = name

\* some token of the first comment is or contains "wv"
HasWv == \E i \in 1..Len(c0) : c0[i] = S_wv \/ Contains(c0[i], S_wv)

\* C1: detectOS followed by OSInfo() never reads a comment token, a section or
\* an element of a split slice at an index past the end of its list: no call
\* ends in Go's index-out-of-range panic, whatever the section list, the
\* first section's name, the engine tag and the length of the comment list.
C1_NoIndexOutOfRange == pc # "panic"

\* C1 witness: detectOS ran a heuristic on a comment list of 4 or more tokens
\* and OSInfo() then returned.
C1_Witness ==
    /\ pc = "queried"
    /\ Len(sections) > 0
    /\ Len(c0) >= 4
    /\ ran # {}

\* C2 (as claimed): for every non-empty section list, if detectOS returns
\* without having run an engine heuristic and without having applied the
\* okhttp rule, then undecided is true on return.
C2_UndecidedWhenNothingRan ==
    (pc = "return" /\ Len(sections) > 0 /\ ran = {}) => p.undecided

\* C3 (as claimed): once platform or os holds a non-empty value, no later step
\* of the same detectOS call changes that field.
C3_WriteOnce ==
    [][/\ (p.os # S_Empty => p'.os = p.os)
       /\ (p.platform # S_Empty => p'.platform = p.platform)]_vars

\* gecko takes a branch that assigns os without testing it: comment[1] is "U"
\* or "arm_64", the platform contains "Android", or comment[0] is "Mobile" or
\* "Tablet"
GeckoAssignsOS ==
    /\ Len(c0) > 1
    /\ \/ c0[2] \in {S_U, S_arm_64}
       \/ Contains(p.platform, S_Android)
       \/ c0[1] \in {S_Mobile, S_Tablet}

\* C3 (amended): the fields are write-once where the code tests them before
\* writing.  An os that is already set is left unchanged by webkit (and the
\* scan of the section names that follows it), by trident, and by gecko
\* unless gecko takes one of its branches that assign os untested; a platform
\* that is already set is left unchanged by webkit.
C3_WriteOnceWhereTested ==
    [][/\ (pc \in {"webkit", "names", "trident"} /\ p.os # S_Empty
                => p'.os = p.os)
       /\ (pc = "gecko" /\ p.os # S_Empty /\ ~GeckoAssignsOS
                => p'.os = p.os)
       /\ (pc \in {"webkit", "names"} /\ p.platform # S_Empty
                => p'.platform = p.platform)]_vars

\* C3 witness: trident ran on a comment of three or more tokens with the os
\* pre-set by the Mozilla branch, and the pre-set value is the one returned.
C3_Witness ==
    /\ pc = "return"
    /\ ran = {"trident"}
    /\ Len(c0) > 2
    /\ c0[1] = T_Windows_NT_10_0
    /\ p.os = S_Windows_10

\* C4: for a first section named "Mozilla" with engine tag "Gecko" whose
\* comment[0] starts with "Windows" and whose comment[1], when present, is
\* neither "U" nor "arm_64", the os on return is normalizeOS(comment[0]), the
\* value the Mozilla branch pre-set; "Windows NT 10.0" gives "Windows 10".
C4_WindowsUnderGecko ==
    (/\ pc = "return"
     /\ FirstNamed(S_Mozilla)
     /\ p0.browser.Engine = S_Gecko
     /\ Len(c0) > 0
     /\ HasPrefix(c0[1], S_Windows)
     /\ (Len(c0) > 1 => c0[2] \notin {S_U, S_arm_64}))
    => /\ p.os = normalizeOS(c0[1])
       /\ (c0[1] = T_Windows_NT_10_0 => p.os = S_Windows_10)

\* C4 witness: gecko ran on ("Windows NT 10.0", "Win64", "x64") and the os
\* returned is "Windows 10".
C4_Witness ==
    /\ pc = "return"
    /\ ran = {"gecko"}
    /\ c0 = <<T_Windows_NT_10_0, T_Win64, T_x64>>
    /\ p.os = S_Windows_10

\* C5 (as claimed): whenever detectOS runs the Trident heuristic on a comment
\* list of fewer than 3 tokens, on return platform is "Windows" and os is
\* "Windows NT 4.0".
C5_TridentFloor ==
    (pc = "return" /\ "trident" \in ran /\ Len(c0) < 3)
    => (p.platform = S_Windows /\ p.os = S_Windows_NT_4_0)

\* C5 (amended): whenever detectOS, starting from an empty record, runs the
\* Trident heuristic on a comment list of fewer than 3 tokens, on return
\* platform is "Windows", and os is "Windows NT 4.0" unless comment[0] starts
\* with "Windows": then os is normalizeOS(comment[0]), which the Mozilla
\* branch set before the heuristic ran.
C5_TridentFloorUnlessPreset ==
    (pc = "return" /\ "trident" \in ran /\ Len(c0) < 3)
    => /\ p.platform = S_Windows
       /\ p.os = IF Len(c0) > 0 /\ HasPrefix(c0[1], S_Windows)
                 THEN normalizeOS(c0[1])
                 ELSE S_Windows_NT_4_0

\* C5 witness: trident ran on the two tokens ("compatible", "Win64") and the
\* os returned is the floor.
C5_Witness ==
    /\ pc = "return"
    /\ ran = {"trident"}
    /\ c0 = <<S_compatible, T_Win64>>
    /\ p.platform = S_Windows
    /\ p.os = S_Windows_NT_4_0

\* C6 (as claimed): for every section list whose first section is named
\* "Mozilla" with engine tag "AppleWebKit", whose first comment has a token
\* that is or contains "wv", and whose browser name on entry contains
\* "Chrome", on return mobile is true and the browser name is
\* "Chrome WebView".
C6_WebViewRename ==
    (/\ pc = "return"
     /\ FirstNamed(S_Mozilla)
     /\ p0.browser.Engine = S_AppleWebKit
     /\ HasWv
     /\ Contains(p0.browser.Name, S_Chrome))
    => (p.mobile /\ p.browser.Name = S_Chrome_WebView)

\* C7 (as claimed): when sections[0].name is "Trident", on return platform is
\* "Windows", os is non-empty and undecided is false.
C7_TridentSectionName ==
    (pc = "return" /\ FirstNamed(S_Trident))
    => (p.platform = S_Windows /\ p.os # S_Empty /\ ~p.undecided)

\* C7 (amended): the Trident heuristic is selected by the engine tag under a
\* first section named "Mozilla": then on return the heuristic has run,
\* platform is "Windows", undecided is false and os is the value the
\* heuristic leaves: normalizeOS(comment[0]) when comment[0] starts with
\* "Windows", else normalizeOS(comment[2]) when there are 3 tokens or more,
\* else "Windows NT 4.0" (so os is non-empty unless comment[2] is the empty
\* token).  A first section named "Trident" is handled as any unknown name:
\* no heuristic runs, undecided is true and nothing else of the record
\* changes.
C7_TridentEngineTag ==
    /\ (pc = "return" /\ FirstNamed(S_Mozilla) /\ p0.browser.Engine = S_Trident)
        => /\ "trident" \in ran
           /\ p.platform = S_Windows
           /\ ~p.undecided
           /\ p.os = IF Len(c0) > 0 /\ HasPrefix(c0[1], S_Windows)
                     THEN normalizeOS(c0[1])
                     ELSE IF Len(c0) > 2 THEN normalizeOS(c0[3])
                     ELSE S_Windows_NT_4_0
           /\ (p.os = S_Empty => Len(c0) > 2 /\ c0[3] = S_Empty)
    /\ (pc = "return" /\ FirstNamed(S_Trident))
        => (ran = {} /\ p = [p0 EXCEPT !.undecided = TRUE])

\* C7 witness: the first section is "Mozilla", the engine tag "Trident", and
\* detectOS returned with the platform "Windows".
C7_Witness ==
    /\ pc = "return"
    /\ FirstNamed(S_Mozilla)
    /\ p0.browser.Engine = S_Trident
    /\ ran = {"trident"}
    /\ p.platform = S_Windows
    /\ p.os # S_Empty

\* C8: for a first section named "okhttp" with version v, detectOS sets
\* mobile, the browser name "OkHttp" and the browser version v, and leaves
\* platform, os, localization and undecided (and the engine tag) as they were
\* on entry, whatever the comment list and the engine tag are.
C8_OkHttp ==
    (pc = "return" /\ FirstNamed(S_okhttp))
    => p = [p0 EXCEPT !.mobile = TRUE,
                      !.browser.Name = S_OkHttp,
                      !.browser.Version = s0.version]

\* C8 witness: detectOS returned from the okhttp rule on a section with a
\* non-empty comment list and a non-empty engine tag, with the section's
\* version as the browser version.
C8_Witness ==
    /\ pc = "return"
    /\ ran = {"okhttp"}
    /\ Len(c0) > 0
    /\ p0.browser.Engine # S_Empty
    /\ p.browser.Version = T_3_12_0
    /\ p.os = S_Empty

\* C9: OSInfo() is a pure query: a call leaves every field of the record
\* unchanged, the FullName it returns is the os field verbatim, and a call
\* that follows another call returns the same {FullName, Name, Version}.
C9_OSInfoPure ==
    [][(pc \in {"return", "queried"} /\ pc' = "queried")
        => /\ p' = p
           /\ info'.FullName = p.os
           /\ (pc = "queried" => info' = info)]_vars

\* C9 witness: OSInfo() returned for an os that its cleanup changes (the Name
\* differs from the os field), with FullName still the os field.
C9_Witness ==
    /\ pc = "queried"
    /\ Contains(p.os, S_CPU)
    /\ info.FullName = p.os
    /\ info.Name # p.os

\* C10: the Version OSInfo() returns holds no underscore, whatever the os
\* string is; os = "CPU iPhone OS 10_3_1 like Mac OS X" gives the Name
\* "iPhone OS" and the Version "10.3.1".
C10_UnderscoreToDot ==
    pc = "queried"
    => /\ ~Contains(info.Version, S_Underscore)
       /\ (p.os = T_iPhone_OS
            => info.Name = O_iPhone_OS /\ info.Version = E_10_3_1)

\* C10 witness: OSInfo() returned "10.3.1" for the iPhone os string.
C10_Witness ==
    /\ pc = "queried"
    /\ p.os = T_iPhone_OS
    /\ info.Name = O_iPhone_OS
    /\ info.Version = E_10_3_1

=============================================================================
